---- MODULE Spec2Model ----
(***************************************************************************)
(* The application store of peinture (src/store/appStore.ts): a zustand    *)
(* store wrapped in the persist middleware, with the legacy-key migration  *)
(* helper getLocalItem.                                                    *)
(*                                                                         *)
(* JavaScript values are tagged records: t is the type (null, bool, num,   *)
(* str, arr, obj) and b, n, s, a, m hold the boolean, the number, the      *)
(* string, the array's elements and the object's <<key, value>> members in *)
(* insertion order; the fields a type does not use are blank.              *)
(* A number is held in tenths (9 is 90, 3.5 is 35), so that the one        *)
(* non-integer of the store, guidanceScale 3.5, has a value.               *)
(* Strings in localStorage are TLA+ strings, read character by character.  *)
(***************************************************************************)
EXTENDS Integers, Sequences, FiniteSets, TLC

(***************************************************************************)
(* Bounds of the model.                                                    *)
(***************************************************************************)
\* Setter calls explored after each load of the store.
MaxCalls == 2
\* Longest history list an updater may build.
MaxHist == 2
\* Loads of the store (the first one and the restarts) in one behaviour.
MaxLoads == 2

(***************************************************************************)
(* JavaScript values.                                                      *)
(***************************************************************************)
JSValue(t, b, n, s, a, m) ==
    [t |-> t, b |-> b, n |-> n, s |-> s, a |-> a, m |-> m]
Null == JSValue("null", FALSE, 0, "", <<>>, <<>>)
Bool(b) == JSValue("bool", b, 0, "", <<>>, <<>>)
Tenths(n) == JSValue("num", FALSE, n, "", <<>>, <<>>)
Num(n) == Tenths(10 * n)
Dec(n, d) == Tenths(10 * n + d)
Str(s) == JSValue("str", FALSE, 0, s, <<>>, <<>>)
Arr(a) == JSValue("arr", FALSE, 0, "", a, <<>>)
Obj(m) == JSValue("obj", FALSE, 0, "", <<>>, m)

\* obj[key] of a JavaScript object; HasKey is `key in obj`.
HasKey(o, k) == \E i \in 1..Len(o.m) : o.m[i][1] = k
GetKey(o, k) == o.m[CHOOSE i \in 1..Len(o.m) : o.m[i][1] = k][2]
Keys(o) == {o.m[i][1] : i \in 1..Len(o.m)}
\* obj[key] = val: an existing key keeps its place, a new one goes last.
PutKey(m, k, val) ==
    IF \E i \in 1..Len(m) : m[i][1] = k
    THEN [i \in 1..Len(m) |-> IF m[i][1] = k THEN <<k, val>> ELSE m[i]]
    ELSE Append(m, <<k, val>>)

(***************************************************************************)
(* Strings.                                                                *)
(***************************************************************************)
Ch(s, i) == IF i >= 1 /\ i <= Len(s) THEN SubSeq(s, i, i) ELSE ""
startsWith(s, p) == Len(s) >= Len(p) /\ SubSeq(s, 1, Len(p)) = p
Digits == {"0", "1", "2", "3", "4", "5", "6", "7", "8", "9"}
DigitVal(c) ==
    CASE c = "0" -> 0 [] c = "1" -> 1 [] c = "2" -> 2 [] c = "3" -> 3
      [] c = "4" -> 4 [] c = "5" -> 5 [] c = "6" -> 6 [] c = "7" -> 7
      [] c = "8" -> 8 [] c = "9" -> 9
\* String.prototype.toLowerCase on the letters the locales of the model use.
LowerCh(c) ==
    CASE c = "Z" -> "z" [] c = "H" -> "h" [] c = "E" -> "e" [] c = "N" -> "n"
      [] c = "C" -> "c" [] c = "U" -> "u" [] c = "S" -> "s" [] c = "T" -> "t"
      [] c = "W" -> "w" [] c = "F" -> "f" [] c = "R" -> "r"
      [] OTHER -> c
RECURSIVE toLowerCase(_)
toLowerCase(s) ==
    IF s = "" THEN "" ELSE LowerCh(Ch(s, 1)) \o toLowerCase(SubSeq(s, 2, Len(s)))

(***************************************************************************)
(* JSON.stringify, on the values a snapshot holds.                         *)
(***************************************************************************)
\* Whether s holds a character JSON.stringify escapes.
NeedsEscape(s) == \E i \in 1..Len(s) : Ch(s, i) \in {"\"", "\\"}
RECURSIVE Quote(_, _)
\* The characters of s from i on, with " and \ escaped.
Quote(s, i) ==
    IF i > Len(s) THEN ""
    ELSE IF ~NeedsEscape(SubSeq(s, i, Len(s))) THEN SubSeq(s, i, Len(s))
    ELSE LET c == Ch(s, i)
         IN  (IF c = "\"" \/ c = "\\" THEN "\\" \o c ELSE c) \o Quote(s, i + 1)
NumText(n) ==
    IF n % 10 = 0 THEN ToString(n \div 10)
    ELSE ToString(n \div 10) \o "." \o ToString(n % 10)
RECURSIVE JSONStringify(_)
RECURSIVE StringifyElements(_, _)
RECURSIVE StringifyMembers(_, _)
StringifyElements(a, i) ==
    IF i > Len(a) THEN ""
    ELSE (IF i > 1 THEN "," ELSE "") \o JSONStringify(a[i])
         \o StringifyElements(a, i + 1)
StringifyMembers(m, i) ==
    IF i > Len(m) THEN ""
    ELSE (IF i > 1 THEN "," ELSE "") \o "\"" \o Quote(m[i][1], 1) \o "\":"
         \o JSONStringify(m[i][2]) \o StringifyMembers(m, i + 1)
JSONStringify(x) ==
    CASE x.t = "null" -> "null"
      [] x.t = "bool" -> IF x.b THEN "true" ELSE "false"
      [] x.t = "num" -> NumText(x.n)
      [] x.t = "str" -> "\"" \o Quote(x.s, 1) \o "\""
      [] x.t = "arr" -> "[" \o StringifyElements(x.a, 1) \o "]"
      [] x.t = "obj" -> "{" \o StringifyMembers(x.m, 1) \o "}"

(***************************************************************************)
(* JSON.parse: a recursive-descent parser of the JSON grammar (objects,    *)
(* arrays, strings with the escapes \" and \\, non-negative numbers with   *)
(* at most one fractional digit, true, false, null, blanks between         *)
(* tokens). A result is [ok, val, next]; ok = FALSE is the SyntaxError     *)
(* JSON.parse throws.                                                      *)
(***************************************************************************)
ParseFail == [ok |-> FALSE, val |-> Null, next |-> 0]
ParseOk(val, next) == [ok |-> TRUE, val |-> val, next |-> next]
RECURSIVE SkipWs(_, _)
SkipWs(s, i) == IF Ch(s, i) = " " THEN SkipWs(s, i + 1) ELSE i
RECURSIVE ScanString(_, _, _)
\* i is past the opening quote; acc holds the characters read so far.
ScanString(s, i, acc) ==
    LET c == Ch(s, i)
    IN  CASE c = "" -> ParseFail
          [] c = "\"" -> ParseOk(Str(acc), i + 1)
          [] c = "\\" ->
                IF Ch(s, i + 1) \in {"\"", "\\"}
                THEN ScanString(s, i + 2, acc \o Ch(s, i + 1))
                ELSE ParseFail
          [] OTHER -> ScanString(s, i + 1, acc \o c)
RECURSIVE ScanDigits(_, _, _)
\* The integer part of a number: i is past its first digit.
ScanDigits(s, i, acc) ==
    IF Ch(s, i) \in Digits
    THEN ScanDigits(s, i + 1, 10 * acc + DigitVal(Ch(s, i)))
    ELSE [val |-> acc, next |-> i]
ScanNumber(s, i) ==
    LET int == IF Ch(s, i) = "0" THEN [val |-> 0, next |-> i + 1]
               ELSE ScanDigits(s, i + 1, DigitVal(Ch(s, i)))
    IN  IF Ch(s, int.next) = "."
        THEN IF Ch(s, int.next + 1) \in Digits
                /\ Ch(s, int.next + 2) \notin Digits
             THEN ParseOk(Tenths(10 * int.val + DigitVal(Ch(s, int.next + 1))),
                          int.next + 2)
             ELSE ParseFail
        ELSE ParseOk(Tenths(10 * int.val), int.next)
ScanLiteral(s, i, word, val) ==
    IF i + Len(word) - 1 <= Len(s) /\ SubSeq(s, i, i + Len(word) - 1) = word
    THEN ParseOk(val, i + Len(word))
    ELSE ParseFail
RECURSIVE ParseValue(_, _)
RECURSIVE ParseElements(_, _, _)
RECURSIVE ParseMembers(_, _, _)
\* i is at the first character of an element.
ParseElements(s, i, acc) ==
    LET r == ParseValue(s, i)
        j == SkipWs(s, r.next)
    IN  IF ~r.ok THEN ParseFail
        ELSE CASE Ch(s, j) = "," ->
                    ParseElements(s, SkipWs(s, j + 1), Append(acc, r.val))
               [] Ch(s, j) = "]" -> ParseOk(Arr(Append(acc, r.val)), j + 1)
               [] OTHER -> ParseFail
\* i is at the first character of a member, which must be a string.
ParseMembers(s, i, acc) ==
    IF Ch(s, i) # "\"" THEN ParseFail
    ELSE LET k == ScanString(s, i + 1, "")
             c == SkipWs(s, k.next)
             r == ParseValue(s, SkipWs(s, c + 1))
             j == SkipWs(s, r.next)
         IN  IF ~k.ok \/ Ch(s, c) # ":" THEN ParseFail
             ELSE IF ~r.ok THEN ParseFail
             ELSE CASE Ch(s, j) = "," ->
                         ParseMembers(s, SkipWs(s, j + 1),
                                      PutKey(acc, k.val.s, r.val))
                    [] Ch(s, j) = "}" ->
                         ParseOk(Obj(PutKey(acc, k.val.s, r.val)), j + 1)
                    [] OTHER -> ParseFail
ParseValue(s, i) ==
    LET c == Ch(s, i)
    IN  CASE c = "{" ->
                IF Ch(s, SkipWs(s, i + 1)) = "}"
                THEN ParseOk(Obj(<<>>), SkipWs(s, i + 1) + 1)
                ELSE ParseMembers(s, SkipWs(s, i + 1), <<>>)
          [] c = "[" ->
                IF Ch(s, SkipWs(s, i + 1)) = "]"
                THEN ParseOk(Arr(<<>>), SkipWs(s, i + 1) + 1)
                ELSE ParseElements(s, SkipWs(s, i + 1), <<>>)
          [] c = "\"" -> ScanString(s, i + 1, "")
          [] c \in Digits -> ScanNumber(s, i)
          [] c = "t" -> ScanLiteral(s, i, "true", Bool(TRUE))
          [] c = "f" -> ScanLiteral(s, i, "false", Bool(FALSE))
          [] c = "n" -> ScanLiteral(s, i, "null", Null)
          [] OTHER -> ParseFail
\* JSON.parse(s): the whole text must be one value.
JSONParse(s) ==
    LET r == ParseValue(s, SkipWs(s, 1))
    IN  IF r.ok /\ SkipWs(s, r.next) > Len(s) THEN r ELSE ParseFail


(***************************************************************************)
(* The environment and the store.                                          *)
(*   medium    the storage medium: "ok", "absent" (typeof localStorage is  *)
(*             'undefined') or "broken" (localStorage.getItem throws)      *)
(*   locale    navigator.language                                          *)
(*   storage   localStorage: key -> [present, raw]                         *)
(*   pc        "boot" before the module is evaluated, "ready" after,       *)
(*             "crashed" when its evaluation threw                         *)
(*   initial   the object the initializer returned                         *)
(*   state     the store's state object                                    *)
(*   prev      the state object before the last call                       *)
(*   last      the last call: [op, arg, fn] (fn names the updater passed,  *)
(*             "" when a value was passed)                                 *)
(*   reads     the keys read with localStorage.getItem by the last load    *)
(*   written   the transition numbers whose snapshots were written, in the *)
(*             order of the writes                                         *)
(*   moves     state transitions so far (loads and setter calls)           *)
(*   calls     setter calls so far                                         *)
(*   loads     loads so far                                                *)
(***************************************************************************)
VARIABLES medium, locale, storage, pc, initial, state, prev, last, reads,
          written, moves, calls, loads
vars == <<medium, locale, storage, pc, initial, state, prev, last, reads,
          written, moves, calls, loads>>

\* Faulty variant: the snapshot is stored under a legacy key.
StorageName_LegacyKey == "app_language"
StorageName == "peinture_storage_v1"
LegacyKeys == {"app_language", "app_provider", "app_model", "app_aspect_ratio",
               "ai_image_gen_history", "ai_cloud_history"}
StorageKeys == LegacyKeys \cup {StorageName}
Absent == [present |-> FALSE, raw |-> ""]
Item(raw) == [present |-> TRUE, raw |-> raw]
EmptyStorage == [k \in StorageKeys |-> Absent]

SettingsFields == {"language", "provider", "model", "aspectRatio", "seed",
                   "steps", "guidanceScale", "autoTranslate"}
HistoryFields == {"history", "cloudHistory"}
BusyFlags == {"isLoading", "isTranslating", "isOptimizing", "isUpscaling",
              "isDownloading", "isUploading"}
EphemeralFields == {"currentView", "prompt", "currentImage", "imageDimensions",
                    "isLiveMode", "error"} \cup BusyFlags
PersistedFields == SettingsFields \cup HistoryFields
StateFields == PersistedFields \cup EphemeralFields

\* The model options of ../constants: only the first one is used here.
HF_MODEL_OPTIONS == <<"z-image-turbo", "flux-schnell">>

(***************************************************************************)
(* getLocalItem.                                                           *)
(***************************************************************************)
Return(val) == [threw |-> FALSE, val |-> val]
Throw == [threw |-> TRUE, val |-> Null]
\* The try block: localStorage.getItem and JSON.parse may throw.
\* Faulty variant: a missing entry gives null instead of the default.
getLocalItemTry_ReturnsItem(key, def) ==
    IF medium = "broken" THEN Throw
    ELSE LET item == storage[key]
         IN  IF ~item.present THEN Return(Null)
             ELSE IF startsWith(item.raw, "{") \/ startsWith(item.raw, "[")
             THEN IF JSONParse(item.raw).ok
                  THEN Return(JSONParse(item.raw).val)
                  ELSE Throw
             ELSE Return(Str(item.raw))
\* Faulty variant: every stored value goes through JSON.parse.
getLocalItemTry_AlwaysParses(key, def) ==
    IF medium = "broken" THEN Throw
    ELSE LET item == storage[key]
         IN  IF ~item.present THEN Return(def)
             ELSE IF JSONParse(item.raw).ok
                  THEN Return(JSONParse(item.raw).val)
                  ELSE Throw
getLocalItemTry(key, def) ==
    IF medium = "broken" THEN Throw
    ELSE LET item == storage[key]
         IN  IF ~item.present THEN Return(def)
             ELSE IF startsWith(item.raw, "{") \/ startsWith(item.raw, "[")
             THEN IF JSONParse(item.raw).ok
                  THEN Return(JSONParse(item.raw).val)
                  ELSE Throw
             ELSE Return(Str(item.raw))
\* Faulty variant: no catch around the try block.
getLocalItem_NoCatch(key, def) ==
    IF medium = "absent" THEN Return(def)
    ELSE getLocalItemTry(key, def)
getLocalItem(key, def) ==
    IF medium = "absent" THEN Return(def)
    ELSE IF getLocalItemTry(key, def).threw THEN Return(def)
    ELSE getLocalItemTry(key, def)

(***************************************************************************)
(* The initializer: the state object before rehydration.                   *)
(***************************************************************************)
\* Faulty variant: the locale is compared without lowering its case.
DefaultLanguage_CaseSensitive ==
    IF startsWith(locale, "zh") THEN Str("zh") ELSE Str("en")
DefaultLanguage ==
    IF startsWith(toLowerCase(locale), "zh") THEN Str("zh") ELSE Str("en")
\* The legacy key and the default of each migrated field.
LegacyKey(f) ==
    CASE f = "language" -> "app_language"
      [] f = "provider" -> "app_provider"
      [] f = "model" -> "app_model"
      [] f = "aspectRatio" -> "app_aspect_ratio"
      [] f = "history" -> "ai_image_gen_history"
      [] f = "cloudHistory" -> "ai_cloud_history"
MigratedFields == {"language", "provider", "model", "aspectRatio", "history",
                   "cloudHistory"}
LegacyDefault(f) ==
    CASE f = "language" -> DefaultLanguage
      [] f = "provider" -> Str("huggingface")
      [] f = "model" -> Str(HF_MODEL_OPTIONS[1])
      [] f = "aspectRatio" -> Str("1:1")
      [] f = "history" -> Arr(<<>>)
      [] f = "cloudHistory" -> Arr(<<>>)
Migrated(f) == getLocalItem(LegacyKey(f), LegacyDefault(f))
InitialState ==
    [language |-> Migrated("language").val,
     provider |-> Migrated("provider").val,
     model |-> Migrated("model").val,
     aspectRatio |-> Migrated("aspectRatio").val,
     seed |-> Str(""),
     steps |-> Num(9),
     guidanceScale |-> Dec(3, 5),
     autoTranslate |-> Bool(FALSE),
     history |-> Migrated("history").val,
     cloudHistory |-> Migrated("cloudHistory").val,
     currentView |-> Str("creation"),
     prompt |-> Str(""),
     isLoading |-> Bool(FALSE),
     isTranslating |-> Bool(FALSE),
     isOptimizing |-> Bool(FALSE),
     isUpscaling |-> Bool(FALSE),
     isDownloading |-> Bool(FALSE),
     isUploading |-> Bool(FALSE),
     currentImage |-> Null,
     imageDimensions |-> Null,
     isLiveMode |-> Bool(FALSE),
     error |-> Null]
\* The initializer throws when a getLocalItem call does.
InitializerThrows == \E f \in MigratedFields : Migrated(f).threw
\* The keys the initializer reads with localStorage.getItem.
InitializerReads ==
    IF medium = "absent" THEN {} ELSE {LegacyKey(f) : f \in MigratedFields}
\* No state object: before the module is evaluated.
NoState == [f \in StateFields |-> Null]

(***************************************************************************)
(* The persist middleware, as the store configures it.                     *)
(***************************************************************************)
\* Faulty variant: the seed is left out of the snapshot.
partialize_WithoutSeed(s) ==
    Obj(<< <<"language", s.language>>,
           <<"provider", s.provider>>,
           <<"model", s.model>>,
           <<"aspectRatio", s.aspectRatio>>,
           <<"steps", s.steps>>,
           <<"guidanceScale", s.guidanceScale>>,
           <<"autoTranslate", s.autoTranslate>>,
           <<"history", s.history>>,
           <<"cloudHistory", s.cloudHistory>> >>)
\* Faulty variant: the prompt is persisted too.
partialize_WithPrompt(s) ==
    Obj(<< <<"language", s.language>>,
           <<"provider", s.provider>>,
           <<"model", s.model>>,
           <<"aspectRatio", s.aspectRatio>>,
           <<"seed", s.seed>>,
           <<"steps", s.steps>>,
           <<"guidanceScale", s.guidanceScale>>,
           <<"autoTranslate", s.autoTranslate>>,
           <<"history", s.history>>,
           <<"cloudHistory", s.cloudHistory>>,
           <<"prompt", s.prompt>> >>)
partialize(s) ==
    Obj(<< <<"language", s.language>>,
           <<"provider", s.provider>>,
           <<"model", s.model>>,
           <<"aspectRatio", s.aspectRatio>>,
           <<"seed", s.seed>>,
           <<"steps", s.steps>>,
           <<"guidanceScale", s.guidanceScale>>,
           <<"autoTranslate", s.autoTranslate>>,
           <<"history", s.history>>,
           <<"cloudHistory", s.cloudHistory>> >>)
\* The value stored under the storage name: the projected state and the
\* version (0, as the options give none).
StorageValue(s) == Obj(<< <<"state", partialize(s)>>, <<"version", Num(0)>> >>)
\* createJSONStorage(() => localStorage) is undefined without localStorage,
\* and persist then passes every set through without storing.
Persisting == medium # "absent"
\* setItem: the snapshot of s replaces the entry of the storage name.
setItem(s) ==
    IF Persisting
    THEN [storage EXCEPT ![StorageName] = Item(JSONStringify(StorageValue(s)))]
    ELSE storage
\* set(partial): a shallow merge of partial into the state object.
Merge(s, partial) ==
    [f \in DOMAIN s |-> IF f \in DOMAIN partial THEN partial[f] ELSE s[f]]
\* The state read from the storage name: ok is FALSE when there is nothing to
\* merge (no entry, a read or parse failure, another version, no object).
Persisted ==
    LET item == storage[StorageName]
        doc == JSONParse(item.raw)
        none == [ok |-> FALSE, val |-> Obj(<<>>)]
    IN  IF ~Persisting \/ medium = "broken" \/ ~item.present THEN none
        ELSE IF ~doc.ok \/ doc.val.t # "obj" THEN none
        ELSE IF HasKey(doc.val, "version")
                /\ GetKey(doc.val, "version").t = "num"
                /\ GetKey(doc.val, "version") # Num(0) THEN none
        ELSE IF ~HasKey(doc.val, "state") \/ GetKey(doc.val, "state").t # "obj"
        THEN none
        ELSE [ok |-> TRUE, val |-> GetKey(doc.val, "state")]
\* merge(persistedState, currentState): the default, a shallow merge.
\* Faulty variant: the persisted object replaces the persisted fields whole.
merge_Replace(persisted, current) ==
    [f \in DOMAIN current |->
        IF HasKey(persisted, f) THEN GetKey(persisted, f)
        ELSE IF f \in PersistedFields THEN Null ELSE current[f]]
merge(persisted, current) ==
    [f \in DOMAIN current |->
        IF HasKey(persisted, f) THEN GetKey(persisted, f) ELSE current[f]]
\* Whether rehydration reaches its write-back: not when reading or parsing
\* the entry threw.
HydrateCompletes ==
    /\ Persisting
    /\ medium # "broken"
    /\ storage[StorageName].present => JSONParse(storage[StorageName].raw).ok

(***************************************************************************)
(* The values the callers pass, and the contents storage may start with.   *)
(***************************************************************************)
ImgA == Obj(<< <<"id", Str("a")>> >>)
ImgB == Obj(<< <<"id", Str("b")>> >>)
LanguageArgs == {Str("en"), Str("zh")}
ProviderArgs == {Str("huggingface"), Str("gitee")}
ModelArgs == {Str(HF_MODEL_OPTIONS[1]), Str(HF_MODEL_OPTIONS[2])}
AspectRatioArgs == {Str("1:1"), Str("16:9")}
SeedArgs == {Str(""), Str("42")}
StepsArgs == {Num(9), Num(20)}
GuidanceScaleArgs == {Dec(3, 5), Num(7)}
BoolArgs == {Bool(FALSE), Bool(TRUE)}
HistoryArgs == {Arr(<<>>), Arr(<<ImgB>>)}
ViewArgs == {Str("creation"), Str("gallery")}
PromptArgs == {Str(""), Str("a cat")}
ImageArgs == {Null, ImgA}
DimensionsArgs ==
    {Null, Obj(<< <<"width", Num(512)>>, <<"height", Num(512)>> >>)}
ErrorArgs == {Null, Str("failed")}
\* Updater functions the callers pass to setHistory and setCloudHistory:
\* prev => [img, ...prev] and prev => prev.slice(1), on arrays.
HistoryUpdaters == {"prependA", "prependB", "dropFirst"}
ApplyHistoryUpdater(fn, h) ==
    CASE fn = "prependA" -> Arr(<<ImgA>> \o h.a)
      [] fn = "prependB" -> Arr(<<ImgB>> \o h.a)
      [] fn = "dropFirst" -> Arr(IF h.a = <<>> THEN <<>> ELSE Tail(h.a))
\* Whether the updater keeps the list within the model's length bound.
WithinHist(fn, h) == fn = "dropFirst" \/ Len(h.a) < MaxHist
\* Updater functions passed to setCurrentImage:
\* prev => prev ? {...prev, isUpscaled: true} : null, and prev => null.
ImageUpdaters == {"markUpscaled", "clear"}
ApplyImageUpdater(fn, img) ==
    CASE fn = "markUpscaled" ->
            IF img.t = "obj" THEN Obj(PutKey(img.m, "isUpscaled", Bool(TRUE)))
            ELSE Null
      [] fn = "clear" -> Null

NoLegacy == [k \in LegacyKeys |-> Absent]
\* What an earlier release of the application left under the legacy keys.
LegacyTypical ==
    [k \in LegacyKeys |->
        CASE k = "app_language" -> Item("zh")
          [] k = "app_provider" -> Item("gitee")
          [] k = "app_model" -> Item(HF_MODEL_OPTIONS[2])
          [] k = "app_aspect_ratio" -> Item("16:9")
          [] k = "ai_image_gen_history" -> Item("[{\"id\":\"a\"}]")
          [] k = "ai_cloud_history" -> Item("[]")]
PlainRaws == {"zh", "en", "gitee", "16:9", "", " [1]", "\"zh\"", "5", "true"}
StructuredRaws == {"[]", "{}", "[{\"id\":\"a\"}]", "{\"id\":\"a\"}",
                   "[1, 2]", "[\"x\"] ", "{\"a\":{\"b\":[3.5,null]}}"}
MalformedRaws == {"[", "{", "[1,", "{\"id\"}", "[]x", "{\"a\":1,}", "[1]]",
                  "{bad", "[\"a]"}
RawValues == PlainRaws \cup StructuredRaws \cup MalformedRaws
\* One legacy key holding any raw value, the others absent.
SingleLegacy ==
    {[k \in LegacyKeys |-> IF k = key THEN Item(raw) ELSE Absent] :
        key \in LegacyKeys, raw \in RawValues}
\* A state an earlier run of the store saved.
SavedState ==
    [language |-> Str("en"), provider |-> Str("gitee"),
     model |-> Str(HF_MODEL_OPTIONS[2]), aspectRatio |-> Str("16:9"),
     seed |-> Str("42"), steps |-> Num(20), guidanceScale |-> Num(7),
     autoTranslate |-> Bool(TRUE), history |-> Arr(<<ImgB, ImgA>>),
     cloudHistory |-> Arr(<<ImgA>>)]
SnapshotFull == Item(JSONStringify(StorageValue(SavedState)))
\* A snapshot that lacks fields (a partial write, an older shape).
SnapshotPartial ==
    Item("{\"state\":{\"language\":\"en\",\"steps\":20},\"version\":0}")
SnapshotMalformed == Item("{\"state\":{\"language\":")

(***************************************************************************)
(* Initial states: the environment before the module is evaluated.         *)
(***************************************************************************)
InitEnv(media, locales, legacies, snapshots) ==
    /\ medium \in media
    /\ locale \in locales
    /\ IF medium = "absent" THEN storage = EmptyStorage
       ELSE \E leg \in legacies, snap \in snapshots :
                storage = [k \in StorageKeys |->
                              IF k = StorageName THEN snap ELSE leg[k]]
    /\ pc = "boot"
    /\ initial = NoState
    /\ state = NoState
    /\ prev = NoState
    /\ last = [op |-> "none", arg |-> Null, fn |-> ""]
    /\ reads = {}
    /\ written = <<>>
    /\ moves = 0
    /\ calls = 0
    /\ loads = 0
Init ==
    \/ InitEnv({"ok"}, {"en-US"}, {NoLegacy}, {SnapshotMalformed})
    \/ InitEnv({"ok", "absent"}, {"en-US"}, {NoLegacy}, {Absent})
    \/ InitEnv({"ok"}, {"en-US"}, {LegacyTypical}, {SnapshotPartial})
Snapshots == {Absent, SnapshotFull, SnapshotPartial, SnapshotMalformed}
InitLoad ==
    \/ InitEnv({"ok", "absent"}, {"en-US", "zh-CN", "ZH-TW"},
               {NoLegacy, LegacyTypical}, Snapshots)
    \/ InitEnv({"ok"}, {"en-US"}, SingleLegacy, Snapshots)
    \/ InitEnv({"broken"}, {"en-US"}, {LegacyTypical},
               {Absent, SnapshotFull})
    \/ InitEnv({"ok", "absent"}, {"Zh-Hans", "en-zh", "z", ""}, {NoLegacy},
               {Absent})

(***************************************************************************)
(* Loading: create(persist(initializer, options)) evaluates the            *)
(* initializer, then rehydrates synchronously from localStorage. Releases  *)
(* of the middleware differ in whether a completed rehydration writes the  *)
(* merged state back, so both are allowed.                                 *)
(***************************************************************************)
Load ==
    /\ pc = "boot"
    /\ loads < MaxLoads
    /\ loads' = loads + 1
    /\ reads' = InitializerReads
                  \cup (IF Persisting THEN {StorageName} ELSE {})
    /\ last' = [op |-> "load", arg |-> Null, fn |-> ""]
    /\ IF InitializerThrows
       THEN /\ pc' = "crashed"
            /\ UNCHANGED <<initial, state, storage, written, moves>>
       ELSE /\ pc' = "ready"
            /\ initial' = InitialState
            /\ state' = IF Persisted.ok
                        THEN merge(Persisted.val, InitialState)
                        ELSE InitialState
            /\ moves' = moves + 1
            /\ \E writeBack \in BOOLEAN :
                 IF writeBack /\ HydrateCompletes
                 THEN /\ storage' = setItem(state')
                      /\ written' = Append(written, moves')
                 ELSE UNCHANGED <<storage, written>>
    /\ UNCHANGED <<medium, locale, prev, calls>>

\* The page is closed and opened again: the state object is gone, the
\* storage stays.
Restart ==
    /\ pc = "ready"
    /\ loads < MaxLoads
    /\ pc' = "boot"
    /\ prev' = state
    /\ state' = NoState
    /\ initial' = NoState
    /\ last' = [op |-> "restart", arg |-> Null, fn |-> ""]
    /\ UNCHANGED <<medium, locale, storage, reads, written, moves, calls,
                   loads>>

(***************************************************************************)
(* The setters. set is the set function persist hands to the initializer:  *)
(* the store's own set (a shallow merge), then setItem.                    *)
(***************************************************************************)
\* Faulty variant: the snapshot is taken before the merge.
set_StoresBeforeMerge(op, arg, fn, partial) ==
    /\ pc = "ready"
    /\ calls < MaxCalls
    /\ prev' = state
    /\ state' = Merge(state, partial)
    /\ storage' = setItem(state)
    /\ written' = IF Persisting THEN Append(written, moves) ELSE written
    /\ moves' = moves + 1
    /\ calls' = calls + 1
    /\ last' = [op |-> op, arg |-> arg, fn |-> fn]
    /\ UNCHANGED <<medium, locale, pc, initial, reads, loads>>
set(op, arg, fn, partial) ==
    /\ pc = "ready"
    /\ calls < MaxCalls
    /\ prev' = state
    /\ state' = Merge(state, partial)
    /\ storage' = setItem(state')
    /\ written' = IF Persisting THEN Append(written, moves + 1) ELSE written
    /\ moves' = moves + 1
    /\ calls' = calls + 1
    /\ last' = [op |-> op, arg |-> arg, fn |-> fn]
    /\ UNCHANGED <<medium, locale, pc, initial, reads, loads>>

setLanguage ==
    \E v \in LanguageArgs : set("setLanguage", v, "", [language |-> v])
setProvider ==
    \E v \in ProviderArgs : set("setProvider", v, "", [provider |-> v])
setModel == \E v \in ModelArgs : set("setModel", v, "", [model |-> v])
setAspectRatio ==
    \E v \in AspectRatioArgs :
        set("setAspectRatio", v, "", [aspectRatio |-> v])
setSeed == \E v \in SeedArgs : set("setSeed", v, "", [seed |-> v])
setSteps == \E v \in StepsArgs : set("setSteps", v, "", [steps |-> v])
setGuidanceScale ==
    \E v \in GuidanceScaleArgs :
        set("setGuidanceScale", v, "", [guidanceScale |-> v])
setAutoTranslate ==
    \E v \in BoolArgs : set("setAutoTranslate", v, "", [autoTranslate |-> v])

\* Faulty variant: the updater is applied to the history the store started with.
setHistory_StaleState ==
    \/ \E v \in HistoryArgs : set("setHistory", v, "", [history |-> v])
    \/ \E fn \in HistoryUpdaters :
         /\ WithinHist(fn, state.history)
         /\ set("setHistory", Null, fn,
                [history |-> ApplyHistoryUpdater(fn, initial.history)])
setHistory ==
    \/ \E v \in HistoryArgs : set("setHistory", v, "", [history |-> v])
    \/ \E fn \in HistoryUpdaters :
         /\ WithinHist(fn, state.history)
         /\ set("setHistory", Null, fn,
                [history |-> ApplyHistoryUpdater(fn, state.history)])
setCloudHistory ==
    \/ \E v \in HistoryArgs :
         set("setCloudHistory", v, "", [cloudHistory |-> v])
    \/ \E fn \in HistoryUpdaters :
         /\ WithinHist(fn, state.cloudHistory)
         /\ set("setCloudHistory", Null, fn,
                [cloudHistory |-> ApplyHistoryUpdater(fn, state.cloudHistory)])

setCurrentView ==
    \E v \in ViewArgs : set("setCurrentView", v, "", [currentView |-> v])
setPrompt == \E v \in PromptArgs : set("setPrompt", v, "", [prompt |-> v])
\* Faulty variant: starting to load also clears the error.
setIsLoading_ClearsError ==
    \E v \in BoolArgs :
        set("setIsLoading", v, "", [isLoading |-> v, error |-> Null])
setIsLoading ==
    \E v \in BoolArgs : set("setIsLoading", v, "", [isLoading |-> v])
setIsTranslating ==
    \E v \in BoolArgs : set("setIsTranslating", v, "", [isTranslating |-> v])
setIsOptimizing ==
    \E v \in BoolArgs : set("setIsOptimizing", v, "", [isOptimizing |-> v])
setIsUpscaling ==
    \E v \in BoolArgs : set("setIsUpscaling", v, "", [isUpscaling |-> v])
setIsDownloading ==
    \E v \in BoolArgs : set("setIsDownloading", v, "", [isDownloading |-> v])
setIsUploading ==
    \E v \in BoolArgs : set("setIsUploading", v, "", [isUploading |-> v])

setCurrentImage ==
    \/ \E v \in ImageArgs :
         set("setCurrentImage", v, "", [currentImage |-> v])
    \/ \E fn \in ImageUpdaters :
         set("setCurrentImage", Null, fn,
             [currentImage |-> ApplyImageUpdater(fn, state.currentImage)])
setImageDimensions ==
    \E v \in DimensionsArgs :
        set("setImageDimensions", v, "", [imageDimensions |-> v])
setIsLiveMode ==
    \E v \in BoolArgs : set("setIsLiveMode", v, "", [isLiveMode |-> v])
setError == \E v \in ErrorArgs : set("setError", v, "", [error |-> v])

\* Faulty variant: the provider is reset too.
resetSettings_ResetsProvider ==
    set("resetSettings", Null, "",
        [prompt |-> Str(""),
         seed |-> Str(""),
         provider |-> Str("huggingface"),
         aspectRatio |-> Str("1:1"),
         currentImage |-> Null,
         isLiveMode |-> Bool(FALSE),
         error |-> Null,
         imageDimensions |-> Null])
\* Faulty variant: the view is reset too.
resetSettings_ResetsView ==
    set("resetSettings", Null, "",
        [prompt |-> Str(""),
         seed |-> Str(""),
         aspectRatio |-> Str("1:1"),
         currentView |-> Str("creation"),
         currentImage |-> Null,
         isLiveMode |-> Bool(FALSE),
         error |-> Null,
         imageDimensions |-> Null])
resetSettings ==
    set("resetSettings", Null, "",
        [prompt |-> Str(""),
         seed |-> Str(""),
         aspectRatio |-> Str("1:1"),
         currentImage |-> Null,
         isLiveMode |-> Bool(FALSE),
         error |-> Null,
         imageDimensions |-> Null])

Next ==
    \/ Load
    \/ Restart
    \/ setLanguage
    \/ setProvider
    \/ setModel
    \/ setAspectRatio
    \/ setSeed
    \/ setSteps
    \/ setGuidanceScale
    \/ setAutoTranslate
    \/ setHistory
    \/ setCloudHistory
    \/ setCurrentView
    \/ setPrompt
    \/ setIsLoading
    \/ setIsTranslating
    \/ setIsOptimizing
    \/ setIsUpscaling
    \/ setIsDownloading
    \/ setIsUploading
    \/ setCurrentImage
    \/ setImageDimensions
    \/ setIsLiveMode
    \/ setError
    \/ resetSettings
Spec == Init /\ [][Next]_vars

\* Loading alone, from every environment of the model.
NextLoad == Load \/ Restart
SpecLoad == InitLoad /\ [][NextLoad]_vars

(***************************************************************************)
(* Properties.                                                             *)
(***************************************************************************)
\* The stored snapshot, read back: the object under "state" of the entry.
StoredDoc == JSONParse(storage[StorageName].raw)
StoredSnapshot == GetKey(StoredDoc.val, "state")
\* A snapshot was stored by the latest state transition.
JustStored == written # <<>> /\ written[Len(written)] = moves
AfterSetter == pc = "ready" /\ last.op \notin {"none", "load", "restart"}

\* C1: after resetSettings, prompt and seed are '', aspectRatio is '1:1',
\* currentImage and error are null, isLiveMode is false, and provider, model,
\* language, steps, guidanceScale, autoTranslate, history and cloudHistory
\* have the values they had before the call.
C1_ResetSettingsResult ==
    last.op = "resetSettings" =>
        /\ state.prompt = Str("")
        /\ state.seed = Str("")
        /\ state.aspectRatio = Str("1:1")
        /\ state.currentImage = Null
        /\ state.error = Null
        /\ state.isLiveMode = Bool(FALSE)
        /\ \A f \in {"provider", "model", "language", "steps",
                     "guidanceScale", "autoTranslate", "history",
                     "cloudHistory"} : state[f] = prev[f]
\* resetSettings was called with a prompt typed, and a provider, a language
\* and a history that are not the defaults.
C1_Witness ==
    /\ last.op = "resetSettings"
    /\ prev.prompt = Str("a cat")
    /\ state.prompt = Str("")
    /\ state.provider = Str("gitee")
    /\ state.steps = Num(20)
    /\ state.history = Arr(<<ImgA>>)

\* C2 as stated: resetSettings changes only prompt, seed, aspectRatio,
\* currentImage, isLiveMode and error; every other field, imageDimensions
\* included, keeps its value.
C2_OnlySixFieldsChange ==
    last.op = "resetSettings" =>
        \A f \in StateFields \ {"prompt", "seed", "aspectRatio",
                                "currentImage", "isLiveMode", "error"} :
            state[f] = prev[f]
\* C2 as amended: resetSettings changes only the seven fields prompt, seed,
\* aspectRatio, currentImage, isLiveMode, error and imageDimensions (set to
\* null); every other field keeps its value.
C2_OnlySevenFieldsChange ==
    last.op = "resetSettings" =>
        /\ state.imageDimensions = Null
        /\ \A f \in StateFields \ {"prompt", "seed", "aspectRatio",
                                   "currentImage", "isLiveMode", "error",
                                   "imageDimensions"} :
               state[f] = prev[f]
\* resetSettings was called with image dimensions set, a provider that is
\* not the default.
C2_Witness ==
    /\ last.op = "resetSettings"
    /\ prev.imageDimensions # Null
    /\ state.imageDimensions = Null
    /\ state.provider = Str("gitee")
    /\ state.steps = Num(20)

\* C3: whenever a snapshot is stored under 'peinture_storage_v1', its state
\* has exactly the ten persisted keys, each with the current in-memory value
\* of its field, and no ephemeral field.
C3_SnapshotIsProjection ==
    (pc = "ready" /\ JustStored) =>
        LET doc == StoredDoc
            snap == GetKey(doc.val, "state")
        IN  /\ storage[StorageName].present
            /\ doc.ok
            /\ snap.t = "obj"
            /\ Len(snap.m) = 10
            /\ Keys(snap) = PersistedFields
            /\ Keys(snap) \cap EphemeralFields = {}
            /\ \A f \in PersistedFields : GetKey(snap, f) = state[f]
\* A seed was set while a prompt was typed: the snapshot holds the seed.
C3_Witness ==
    /\ pc = "ready"
    /\ JustStored
    /\ last.op = "setSeed"
    /\ state.prompt = Str("a cat")
    /\ state.seed = Str("42")
    /\ GetKey(StoredSnapshot, "seed") = Str("42")

SnapshotPresent ==
    /\ medium = "ok"
    /\ storage[StorageName].present
    /\ StoredDoc.ok
    /\ StoredDoc.val.t = "obj"
    /\ HasKey(StoredDoc.val, "state")
    /\ StoredSnapshot.t = "obj"
\* C5: a load with a unified snapshot present gives each persisted field the
\* snapshot's value when the snapshot has the field, and the initializer's
\* value when it has not.
C5_SnapshotOverridesFieldByField ==
    [][(pc = "boot" /\ pc' = "ready" /\ SnapshotPresent) =>
          \A f \in PersistedFields :
              state'[f] = IF HasKey(StoredSnapshot, f)
                          THEN GetKey(StoredSnapshot, f)
                          ELSE initial'[f]]_vars
\* A load from a snapshot holding language and steps only, with every legacy
\* key set: language is the snapshot's (not the legacy key's), provider and
\* history are the legacy keys', seed is the default.
C5_Witness ==
    /\ pc = "ready"
    /\ last.op = "load"
    /\ loads = 1
    /\ storage["app_language"] = Item("zh")
    /\ state.language = Str("en")
    /\ state.steps = Num(20)
    /\ state.provider = Str("gitee")
    /\ state.history = Arr(<<ImgA>>)
    /\ state.seed = Str("")

\* Defaults passed to getLocalItem.
Defaults == {Str("en"), Str("huggingface"), Arr(<<>>), Null}
StructuredStart(raw) == startsWith(raw, "{") \/ startsWith(raw, "[")

StructuredValues ==
    {Arr(<<>>), Obj(<<>>), Arr(<<ImgA>>), ImgA,
     Obj(<< <<"a", Obj(<< <<"b", Arr(<<Dec(3, 5), Null>>)>> >>)>> >>)}
\* C8: for a stored value that is a valid structured literal getLocalItem
\* returns the parsed value, and for one that does not begin with '{' or '['
\* it returns the stored string unchanged.
C8_ParsedOrUnchanged ==
    \A k \in LegacyKeys, d \in Defaults :
        (medium = "ok" /\ storage[k].present) =>
            LET raw == storage[k].raw
            IN  /\ (StructuredStart(raw) /\ JSONParse(raw).ok)
                      => getLocalItem(k, d) = Return(JSONParse(raw).val)
                /\ \A val \in StructuredValues :
                      raw = JSONStringify(val) => getLocalItem(k, d).val = val
                /\ ~StructuredStart(raw) => getLocalItem(k, d) = Return(Str(raw))
\* The store was loaded with a plain string under the language key and an
\* array literal under the history key.
C8_Witness ==
    /\ pc = "ready"
    /\ medium = "ok"
    /\ storage["app_language"] = Item("zh")
    /\ storage["ai_image_gen_history"] = Item("[{\"id\":\"a\"}]")
    /\ initial.language = Str("zh")
    /\ initial.history = Arr(<<ImgA>>)

\* C9: for a key absent from storage, and for every key when there is no
\* localStorage, getLocalItem(key, def) returns def.
C9_AbsentGivesDefault ==
    \A k \in LegacyKeys, d \in Defaults :
        (medium = "absent" \/ (medium = "ok" /\ ~storage[k].present))
            => getLocalItem(k, d) = Return(d)
\* The store was loaded with the language key set and the provider key
\* absent: provider is the default.
C9_Witness ==
    /\ pc = "ready"
    /\ medium = "ok"
    /\ storage["app_language"].present
    /\ ~storage["app_provider"].present
    /\ initial.provider = Str("huggingface")

\* C10: setHistory(f) sets history to f(history before the call) and
\* setHistory(a) sets it to a; likewise setCloudHistory on cloudHistory and
\* setCurrentImage on currentImage.
C10_UpdaterOrValue ==
    /\ last.op = "setHistory" =>
          state.history = IF last.fn # ""
                          THEN ApplyHistoryUpdater(last.fn, prev.history)
                          ELSE last.arg
    /\ last.op = "setCloudHistory" =>
          state.cloudHistory = IF last.fn # ""
                               THEN ApplyHistoryUpdater(last.fn,
                                                        prev.cloudHistory)
                               ELSE last.arg
    /\ last.op = "setCurrentImage" =>
          state.currentImage = IF last.fn # ""
                               THEN ApplyImageUpdater(last.fn,
                                                      prev.currentImage)
                               ELSE last.arg
\* Two updaters in a row from the empty history: both updates are there.
C10_Witness ==
    /\ last.op = "setHistory"
    /\ last.fn = "prependB"
    /\ calls = 2
    /\ loads = 1
    /\ initial.history = Arr(<<>>)
    /\ prev.history = Arr(<<ImgA>>)
    /\ state.history = Arr(<<ImgB, ImgA>>)

\* C11: no step of a run (a load, a setter call, resetSettings, a restart)
\* changes the entry of a legacy key: the store writes only under
\* 'peinture_storage_v1', and the six legacy entries are the same after the
\* run as before it.
C11_WritesOnlyStorageName ==
    [][\A k \in LegacyKeys : storage'[k] = storage[k]]_vars
\* With every legacy key set, the provider was changed away from the legacy
\* value by the second setter call: the snapshot holds the new provider, the
\* legacy key still the old one.
C11_Witness ==
    /\ last.op = "setProvider"
    /\ calls = 2
    /\ "app_provider" \in reads
    /\ storage["app_provider"] = Item("gitee")
    /\ storage["app_language"] = Item("zh")
    /\ state.provider = Str("huggingface")
    /\ GetKey(StoredSnapshot, "provider") = Str("huggingface")

\* The spellings of the prefix 'zh', whatever the case of its letters.
ZhPrefixes == {"zh", "zH", "Zh", "ZH"}
\* C12: a load in a fresh environment (no storage entries, or no storage at
\* all) gives language 'zh' when the locale starts with 'zh' in any case and
\* 'en' otherwise, provider 'huggingface', model the first configured model
\* option, aspectRatio '1:1', steps 9 and guidanceScale 3.5.
C12_FreshDefaults ==
    [][(pc = "boot" /\ storage = EmptyStorage /\ medium # "broken") =>
          /\ pc' = "ready"
          /\ state'.language = IF \E z \in ZhPrefixes : startsWith(locale, z)
                               THEN Str("zh") ELSE Str("en")
          /\ state'.provider = Str("huggingface")
          /\ state'.model = Str(HF_MODEL_OPTIONS[1])
          /\ state'.aspectRatio = Str("1:1")
          /\ state'.steps = Tenths(90)
          /\ state'.guidanceScale = Tenths(35)]_vars
\* The store was loaded in a fresh environment whose locale is 'ZH-TW':
\* language is 'zh', and nothing has been stored.
C12_Witness ==
    /\ pc = "ready"
    /\ loads = 1
    /\ medium = "ok"
    /\ locale = "ZH-TW"
    /\ storage = EmptyStorage
    /\ state.language = Str("zh")
    /\ state.model = Str("z-image-turbo")
    /\ state.steps = Num(9)

\* The value C13 expects a migrated field to start with: the default of the
\* code when the legacy key is absent, its stored value when present (parsed
\* when it is a structured literal, the default when that does not parse).
LegacyValue(f) ==
    IF ~storage[LegacyKey(f)].present THEN LegacyDefault(f)
    ELSE IF ~StructuredStart(storage[LegacyKey(f)].raw)
    THEN Str(storage[LegacyKey(f)].raw)
    ELSE IF JSONParse(storage[LegacyKey(f)].raw).ok
    THEN JSONParse(storage[LegacyKey(f)].raw).val
    ELSE LegacyDefault(f)
\* C13: a load reads no legacy key when the entry 'peinture_storage_v1' is
\* there, and when it is absent language, provider, model, aspectRatio,
\* history and cloudHistory start with the values of their legacy keys where
\* present and with the code defaults where absent.
C13_LegacyReadOnlyWithoutSnapshot ==
    [][(pc = "boot" /\ pc' = "ready" /\ medium = "ok") =>
          IF storage[StorageName].present
          THEN reads' \cap LegacyKeys = {}
          ELSE \A f \in MigratedFields : state'[f] = LegacyValue(f)]_vars

\* The single-field setters and the field each is named after.
SingleFieldSetters ==
    {"setLanguage", "setProvider", "setModel", "setAspectRatio", "setSeed",
     "setSteps", "setGuidanceScale", "setAutoTranslate", "setHistory",
     "setCloudHistory", "setCurrentView", "setPrompt", "setIsLoading",
     "setIsTranslating", "setIsOptimizing", "setIsUpscaling",
     "setIsDownloading", "setIsUploading", "setCurrentImage",
     "setImageDimensions", "setIsLiveMode", "setError"}
SetterField(op) ==
    CASE op = "setLanguage" -> "language"
      [] op = "setProvider" -> "provider"
      [] op = "setModel" -> "model"
      [] op = "setAspectRatio" -> "aspectRatio"
      [] op = "setSeed" -> "seed"
      [] op = "setSteps" -> "steps"
      [] op = "setGuidanceScale" -> "guidanceScale"
      [] op = "setAutoTranslate" -> "autoTranslate"
      [] op = "setHistory" -> "history"
      [] op = "setCloudHistory" -> "cloudHistory"
      [] op = "setCurrentView" -> "currentView"
      [] op = "setPrompt" -> "prompt"
      [] op = "setIsLoading" -> "isLoading"
      [] op = "setIsTranslating" -> "isTranslating"
      [] op = "setIsOptimizing" -> "isOptimizing"
      [] op = "setIsUpscaling" -> "isUpscaling"
      [] op = "setIsDownloading" -> "isDownloading"
      [] op = "setIsUploading" -> "isUploading"
      [] op = "setCurrentImage" -> "currentImage"
      [] op = "setImageDimensions" -> "imageDimensions"
      [] op = "setIsLiveMode" -> "isLiveMode"
      [] op = "setError" -> "error"
\* C14: after a call of a single-field setter with a value, the setter's own
\* field holds that value and every other state field holds what it held
\* before the call; the call is one state transition.
C14_SetterChangesOwnFieldOnly ==
    /\ moves = loads + calls
    /\ (pc = "ready" /\ last.op \in SingleFieldSetters) =>
          /\ last.fn = "" => state[SetterField(last.op)] = last.arg
          /\ \A f \in StateFields \ {SetterField(last.op)} :
                state[f] = prev[f]
\* setIsLoading(true) was called while an error was shown: isLoading turned
\* true and the error is still there.
C14_Witness ==
    /\ last.op = "setIsLoading"
    /\ calls = 2
    /\ prev.isLoading = Bool(FALSE)
    /\ state.isLoading = Bool(TRUE)
    /\ prev.error = Str("failed")
    /\ state.error = Str("failed")

\* The fixed defaults of the ephemeral fields.
EphemeralDefaults ==
    [currentView |-> Str("creation"),
     prompt |-> Str(""),
     isLoading |-> Bool(FALSE),
     isTranslating |-> Bool(FALSE),
     isOptimizing |-> Bool(FALSE),
     isUpscaling |-> Bool(FALSE),
     isDownloading |-> Bool(FALSE),
     isUploading |-> Bool(FALSE),
     currentImage |-> Null,
     imageDimensions |-> Null,
     isLiveMode |-> Bool(FALSE),
     error |-> Null]
\* The store was loaded again after a restart.
Reloaded == pc = "ready" /\ last.op = "load" /\ loads >= 2
EphemeralSetters ==
    {"setCurrentView", "setPrompt", "setIsLoading", "setIsTranslating",
     "setIsOptimizing", "setIsUpscaling", "setIsDownloading",
     "setIsUploading", "setCurrentImage", "setImageDimensions",
     "setIsLiveMode", "setError"}
\* The content of a storage entry: the value its text stands for when it is
\* JSON, its text otherwise, nothing when there is no entry.
Content(item) ==
    IF ~item.present THEN [kind |-> "none", val |-> Null]
    ELSE IF JSONParse(item.raw).ok
    THEN [kind |-> "json", val |-> JSONParse(item.raw).val]
    ELSE [kind |-> "text", val |-> Str(item.raw)]
====
